---- MODULE Spec2Model ----
(***************************************************************************)
(* scrape_youtube_channels.py: for each configured channel, page through   *)
(* the uploads playlist (get_videos), fetch the view counts in batches     *)
(* (get_view_counts, get_video_data) and write one CSV file (write_data).  *)
(* The two remote endpoints are the environment; the script is one         *)
(* sequential process whose steps are split at its network requests.       *)
(***************************************************************************)
EXTENDS Integers, Sequences, FiniteSets, TLC

\* ------------------------------------------------------------------ bounds
\* 'maxResults': 50 in the source (line 54), scaled down so that playlists of
\* a few videos span several pages.
maxResults == 2
\* batch_size: 50 in the source (line 125), scaled down like maxResults.
batch_size == 2
\* The longest uploads playlist the platform holds.
MaxVideos == 5

\* ------------------------------------------------------------- the script
\* No cursor: Python's None for data.get('nextPageToken') and the missing
\* 'pageToken' key of params. Cursors are sequences, as strings are.
NoToken == << >>

\* No file of that name on disk.
NoFile == [ exists |-> FALSE, rows |-> << >> ]

\* The hardcoded channel list of __main__.
channels ==
  << [playlist |-> "UUbQUXtMwQM9QWQ15yDDN1BA", channel_name |-> "Ben Heath"],
     [playlist |-> "UUFF55suuW0LjzXEnzDTNCnA", channel_name |-> "Dara Denney"],
     [playlist |-> "UU3kl2OhNRZ1rH_4bnd0Ap7g", channel_name |-> "Professor Charley T"] >>

Channels == 1..Len(channels)

VIDEO_BASE_URL == "https://www.youtube.com/watch?v="

\* ------------------------------------------------------------ the platform
Positions == 1..MaxVideos

\* The platform-assigned identifier of the p-th upload of channel c.
VideoId(c, p) == << channels[c].playlist, p >>

\* An identifier that is in no playlist.
StrayId == << "stray", 0 >>

\* viewCount strings as the API sends them: sequences of characters.
Digits == {"0", "1", "2", "3", "4", "5", "6", "7", "8", "9"}
ZeroCount == << "0" >>
SomeCount == << "1", "5" >>
NegativeCount == << "-", "4" >>
ViewCountValues == {ZeroCount, SomeCount, NegativeCount}

\* What the statistics endpoint holds for an upload: a viewCount value, or
\* no item at all.
Absent == << "absent" >>
StatEntries == ViewCountValues \cup {Absent}

\* The statistics tables of the platform: one entry per listing position,
\* SomeCount everywhere but at two positions at most.
StatTables ==
  { t \in [Positions -> StatEntries] :
      \E p \in Positions, q \in Positions :
         \A r \in Positions \ {p, q} : t[r] = SomeCount }

VARIABLES
  uploads,        \* platform: number of videos of the playlist being listed
  statistics,     \* platform: listing position -> StatEntries
  pc,             \* where the script is: "main", "list", "batch", "write", "done", "aborted"
  ch,             \* index in channels of the channel being processed
  pageToken,      \* params['pageToken'] of get_videos (NoToken: key not set)
  next_page_token,\* get_videos: the cursor of the last response
  videos,         \* the list get_videos builds and returns
  i,              \* get_video_data: the loop index of range(0, len(videos), batch_size)
  view_counts,    \* get_video_data: the mapping the last get_view_counts returned
  final_data,     \* get_video_data: the merged records
  files,          \* the file system: channel -> rows of '<channel_name>.csv', or NoFile
  trace           \* history: the requests, sleeps, file writes and errors so far

vars == << uploads, statistics, pc, ch, pageToken, next_page_token, videos, i,
           view_counts, final_data, files, trace >>

Event(op, c, arg) == [ op |-> op, ch |-> c, arg |-> arg ]

Min(a, b) == IF a < b THEN a ELSE b

\* --------------------------------------------------------------- get_videos
\* A loop that breaks after its first page whatever the response says.
TruthyNever(tok) == FALSE

\* Python truthiness of data.get('nextPageToken') (line 76): None and the
\* empty string are both false.
Truthy(tok) == tok # NoToken

\* The listing endpoint: the page of playlist c that starts after `offset`
\* items, at most maxResults items long.
PageItems(c, offset) ==
  LET last == Min(offset + maxResults, uploads)
  IN  [ k \in 1..(IF last > offset THEN last - offset ELSE 0) |->
          [ title |-> << "title", offset + k >>, videoId |-> VideoId(c, offset + k) ] ]

\* The listing endpoint: the cursor of the next page, when there is one.
NextToken(c, offset) ==
  IF offset + maxResults < uploads
    THEN << channels[c].playlist, offset + maxResults >>
    ELSE NoToken

\* The offset a request addresses: none on the first request (no pageToken).
OffsetOf(tok) == IF tok = NoToken THEN 0 ELSE tok[2]

\* An extraction that skips the last item of every page.
ExtractItemsButLast(items) ==
  [ k \in 1..(Len(items) - 1) |->
      [ title |-> items[k].title,
        video_url |-> << VIDEO_BASE_URL, items[k].videoId >>,
        video_id |-> items[k].videoId ] ]

\* Lines 67-71: one record per item of the response.
ExtractItems(items) ==
  [ k \in 1..Len(items) |->
      [ title |-> items[k].title,
        video_url |-> << VIDEO_BASE_URL, items[k].videoId >>,
        video_id |-> items[k].videoId ] ]

\* A params dict shared between calls, which keeps the last 'pageToken'.
KeptParams(tok) == tok

\* Lines 51-56: params of a get_videos call has no 'pageToken' key.
FreshParams(tok) == NoToken

\* Lines 181-182, 123, 51-58: the next channel is taken and get_videos starts
\* with fresh params and an empty list. The platform holds some number of
\* uploads for the channel.
GetVideosEnter ==
  /\ pc = "main"
  /\ pc' = "list"
  /\ \E k \in 0..MaxVideos : uploads' = k
  /\ pageToken' = FreshParams(pageToken)
  /\ next_page_token' = NoToken
  /\ videos' = << >>
  /\ UNCHANGED << statistics, ch, i, view_counts, final_data, files, trace >>

\* Lines 61-79: one iteration of the pagination loop, and on its exit line 81
\* and lines 125-126.
ListPage ==
  /\ pc = "list"
  /\ LET items == PageItems(ch, OffsetOf(pageToken))
         tok   == NextToken(ch, OffsetOf(pageToken))
     IN  /\ trace' = Append(trace, Event("list", ch, pageToken))
         /\ videos' = videos \o ExtractItems(items)
         /\ next_page_token' = tok
         /\ IF Truthy(tok)
              THEN /\ pageToken' = tok
                   /\ pc' = "list"
                   /\ UNCHANGED << i, final_data >>
              ELSE /\ pageToken' = pageToken
                   /\ pc' = "batch"
                   /\ i' = 0
                   /\ final_data' = << >>
  /\ UNCHANGED << uploads, statistics, ch, view_counts, files >>

\* ---------------------------------------------------------- get_view_counts
\* The statistics endpoint: one item per requested identifier it holds a
\* count for, in request order, and possibly an item nobody asked for.
StatsItems(video_ids, stray) ==
  LET Held(k) == statistics[video_ids[k][2]] # Absent
      item(k) == [ id |-> video_ids[k], viewCount |-> statistics[video_ids[k][2]] ]
      F[k \in 0..Len(video_ids)] ==
        IF k = 0 THEN << >>
        ELSE IF Held(k) THEN Append(F[k - 1], item(k)) ELSE F[k - 1]
  IN  F[Len(video_ids)] \o
        (IF stray THEN << [ id |-> StrayId, viewCount |-> SomeCount ] >> ELSE << >>)

\* Lines 103-109: stats[item['id']] = item['statistics']['viewCount'] for every
\* item of the response, a later item overwriting an earlier one.
StatsOf(items) ==
  [ id \in { items[k].id : k \in 1..Len(items) } |->
      LET last == CHOOSE k \in 1..Len(items) :
                    /\ items[k].id = id
                    /\ \A j \in (k + 1)..Len(items) : items[j].id # id
      IN  items[last].viewCount ]

\* ----------------------------------------------------------- get_video_data
\* The slice videos[i:i + batch_size - 1].
BatchShort(vs, from) == SubSeq(vs, from + 1, Min(from + batch_size - 1, Len(vs)))

\* Line 130: videos[i:i + batch_size].
Batch(vs, from) == SubSeq(vs, from + 1, Min(from + batch_size, Len(vs)))

\* Line 131.
VideoIds(batch) == [ k \in 1..Len(batch) |-> batch[k].video_id ]

\* view_counts.get(video['video_id']), without the default.
ViewsNoDefault(counts, id) == IF id \in DOMAIN counts THEN counts[id] ELSE << "None" >>

\* Line 136: view_counts.get(video['video_id'], '0').
Views(counts, id) == IF id \in DOMAIN counts THEN counts[id] ELSE ZeroCount

\* Lines 135-138: every video of the batch gets its views and is appended.
Merge(batch, counts) ==
  [ k \in 1..Len(batch) |->
      [ title |-> batch[k].title,
        video_url |-> batch[k].video_url,
        video_id |-> batch[k].video_id,
        views |-> Views(counts, batch[k].video_id) ] ]

\* Line 140: time.sleep(0.4) after the batch.
Sleep(c) == << Event("sleep", c, << >>) >>

\* A range whose step is one short of the batch size.
NextIndexOverlap(from) == from + batch_size - 1

\* Line 129: the next value of range(0, len(videos), batch_size).
NextIndex(from) == from + batch_size

\* Lines 129-140: one iteration of the batch loop.
GetVideoDataBatch ==
  /\ pc = "batch"
  /\ i < Len(videos)
  /\ \E stray \in BOOLEAN :
       LET batch  == Batch(videos, i)
           ids    == VideoIds(batch)
           counts == StatsOf(StatsItems(ids, stray))
       IN  /\ view_counts' = counts
           /\ final_data' = final_data \o Merge(batch, counts)
           /\ trace' = Append(trace, Event("stats", ch, ids)) \o Sleep(ch)
  /\ i' = NextIndex(i)
  /\ UNCHANGED << uploads, statistics, pc, ch, pageToken, next_page_token, videos, files >>

\* Line 142: the range is exhausted and final_data is returned.
GetVideoDataReturn ==
  /\ pc = "batch"
  /\ i >= Len(videos)
  /\ pc' = "write"
  /\ view_counts' = << >>
  /\ UNCHANGED << uploads, statistics, ch, pageToken, next_page_token, videos, i,
                  final_data, files, trace >>

\* --------------------------------------------------------------- write_data
Header == << "title", "video_url", "views" >>

\* Lines 158-161: the three output fields of every record, in column order.
CleanData(data) ==
  [ k \in 1..Len(data) |-> << data[k].title, data[k].video_url, data[k].views >> ]

\* A writer that never calls writeheader().
CsvRowsNoHeader(data) ==
  [ k \in 1..Len(data) |-> << data[k].title, data[k].video_url, data[k].views >> ]

\* Lines 164-167: the file is truncated, then the header and the rows written.
CsvRows(data) == << Header >> \o CleanData(data)

\* Lines 183 and 181: write_data, then the loop takes the next channel or ends.
WriteData ==
  /\ pc = "write"
  /\ files' = [ files EXCEPT ![ch] = [ exists |-> TRUE, rows |-> CsvRows(final_data) ] ]
  /\ trace' = Append(trace, Event("write", ch, CsvRows(final_data)))
  /\ ch' = ch + 1
  /\ pc' = IF ch = Len(channels) THEN "done" ELSE "main"
  /\ UNCHANGED << uploads, statistics, pageToken, next_page_token, videos, i,
                  view_counts, final_data >>

\* ------------------------------------------------------------------ errors
\* A loop that catches the exception and goes on with the next channel.
SkipChannel(c) == [ pc |-> IF c = Len(channels) THEN "done" ELSE "main", ch |-> c + 1 ]

\* Nothing in lines 172-183 catches an exception: the process ends where the
\* request failed.
AfterError(c) == [ pc |-> "aborted", ch |-> c ]

\* requests.get raises, or the response lacks 'items' or a field of an item
\* (lines 62-69 and 101-107).
RequestFails ==
  /\ \/ pc = "list"
     \/ pc = "batch" /\ i < Len(videos)
  /\ trace' = Append(trace, Event("error", ch, << >>))
  /\ pc' = AfterError(ch).pc
  /\ ch' = AfterError(ch).ch
  /\ UNCHANGED << uploads, statistics, pageToken, next_page_token, videos, i,
                  view_counts, final_data, files >>

Init ==
  /\ uploads = 0
  /\ statistics \in StatTables
  /\ pc = "main"
  /\ ch = 1
  /\ pageToken = NoToken
  /\ next_page_token = NoToken
  /\ videos = << >>
  /\ i = 0
  /\ view_counts = << >>
  /\ final_data = << >>
  /\ files = [ c \in Channels |-> NoFile ]
  /\ trace = << >>

Next ==
  \/ GetVideosEnter
  \/ ListPage
  \/ GetVideoDataBatch
  \/ GetVideoDataReturn
  \/ WriteData
  \/ RequestFails

Spec == Init /\ [][Next]_vars

\* ----------------------------------------------------------- the properties
Ceil(a, b) == (a + b - 1) \div b

\* The events of one kind logged for channel c, in order.
EventsOf(op, c) == SelectSeq(trace, LAMBDA e : e.op = op /\ e.ch = c)

RECURSIVE Flatten(_)
Flatten(es) == IF Len(es) = 0 THEN << >> ELSE Head(es).arg \o Flatten(Tail(es))

\* get_videos has returned for the channel being processed.
Listed == pc \in {"batch", "write"}

\* Each page request after the first carries the cursor the response to the
\* request before it supplied; the first carries none.
CursorsInOrder ==
  LET reqs == EventsOf("list", ch)
  IN  \A k \in 1..Len(reqs) :
        reqs[k].arg = IF k = 1 THEN NoToken
                      ELSE NextToken(ch, OffsetOf(reqs[k - 1].arg))

\* C1, as stated: once get_videos has returned for a playlist of K videos, it
\* has returned exactly K records and issued exactly ceil(K / page size) page
\* requests, cursors consumed in the order supplied -- for K = 0 as well.
C1_AsStated ==
  Listed =>
    /\ Len(videos) = uploads
    /\ Len(EventsOf("list", ch)) = Ceil(uploads, maxResults)
    /\ CursorsInOrder

\* C1, amended: once get_videos has returned for a playlist of K videos, it has
\* returned exactly K records, the i-th being the i-th upload, and issued
\* ceil(K / page size) page requests, but one request when K = 0; cursors are
\* consumed in the order supplied.
C1_PagesAndRecords ==
  Listed =>
    /\ Len(videos) = uploads
    /\ \A k \in 1..Len(videos) : videos[k].video_id = VideoId(ch, k)
    /\ Len(EventsOf("list", ch)) = IF uploads = 0 THEN 1 ELSE Ceil(uploads, maxResults)
    /\ CursorsInOrder

C1_Witness ==
  /\ Listed
  /\ uploads = 2 * maxResults
  /\ Len(videos) = uploads
  /\ Len(EventsOf("list", ch)) = 2

\* C2: the sequence get_video_data returns has the length and the video order
\* of the listing, and while the batches run final_data is the prefix of the
\* listing the loop has covered.
C2_OrderPreserved ==
  /\ pc = "batch" =>
       /\ Len(final_data) = Min(i, Len(videos))
       /\ \A k \in 1..Len(final_data) : final_data[k].video_id = videos[k].video_id
  /\ pc = "write" =>
       /\ Len(final_data) = Len(videos)
       /\ \A k \in 1..Len(videos) :
            /\ final_data[k].video_id = videos[k].video_id
            /\ final_data[k].title = videos[k].title
            /\ final_data[k].video_url = videos[k].video_url

C2_Witness ==
  /\ pc = "write"
  /\ Len(final_data) > batch_size
  /\ Len(final_data) % batch_size # 0

\* The positions in final_data of the batch merged last.
LastBatch == { k \in 1..Len(final_data) : k > i - batch_size }

\* C3: right after a batch is merged, each of its videos whose id is not a key
\* of the batch's stats mapping has views "0", each whose id is a key has the
\* mapped value; and every record of final_data has a views field.
C3_DefaultViews ==
  /\ (pc = "batch" /\ i > 0) =>
       \A k \in LastBatch :
         /\ final_data[k].video_id \notin DOMAIN view_counts
              => final_data[k].views = << "0" >>
         /\ final_data[k].video_id \in DOMAIN view_counts
              => final_data[k].views = view_counts[final_data[k].video_id]
  /\ pc \in {"batch", "write"} =>
       \A k \in 1..Len(final_data) : "views" \in DOMAIN final_data[k]

C3_Witness ==
  /\ pc = "batch"
  /\ i > 0
  /\ \E k \in LastBatch : final_data[k].video_id \notin DOMAIN view_counts
  /\ \E k \in LastBatch : /\ final_data[k].video_id \in DOMAIN view_counts
                          /\ final_data[k].views = SomeCount

\* C4, as stated: the keys of the mapping get_view_counts returned are a subset
\* of the identifiers of the batch it was called with.
C4_KeysSubsetOfBatch ==
  (pc = "batch" /\ i > 0) =>
    DOMAIN view_counts \subseteq { final_data[k].video_id : k \in LastBatch }

\* The rows of the file written last.
WrittenRows == files[ch - 1].rows
JustWritten == pc \in {"main", "done"} /\ ch > 1

ZeroRows == { k \in 2..Len(WrittenRows) : WrittenRows[k][3] = << "0" >> }
Unavailable == { p \in 1..uploads : statistics[p] = Absent }
ReportedZero == { p \in 1..uploads : statistics[p] = ZeroCount }

\* C5, as stated: for a playlist of K items with statistics available for all
\* but M identifiers, the file has K + 1 rows, and exactly M data rows carry
\* views = 0.
C5_AsStated ==
  JustWritten =>
    /\ Len(WrittenRows) = uploads + 1
    /\ Cardinality(ZeroRows) = Cardinality(Unavailable)

\* C5, amended: the file has K + 1 rows, the header first and then one row per
\* video in listing order; the data rows that carry views = 0 are those of the
\* M videos without statistics and those of the videos whose reported count
\* is itself 0.
C5_RowsAndZeros ==
  JustWritten =>
    /\ files[ch - 1].exists
    /\ Len(WrittenRows) = uploads + 1
    /\ WrittenRows[1] = << "title", "video_url", "views" >>
    /\ \A k \in 1..uploads :
         WrittenRows[k + 1][2] = << VIDEO_BASE_URL, VideoId(ch - 1, k) >>
    /\ ZeroRows = { p + 1 : p \in Unavailable \cup ReportedZero }

C5_Witness ==
  /\ JustWritten
  /\ uploads = MaxVideos
  /\ Cardinality(Unavailable) = 2
  /\ Cardinality(ZeroRows) = 2

\* C6: an error event is the last thing that ever happens; when the run has
\* aborted in channel i, no file of channel i or of a later channel exists and
\* every earlier channel's file holds the rows written to it.
C6_AbortLeavesFiles ==
  /\ \A k \in 1..Len(trace) :
       trace[k].op = "error" => (k = Len(trace) /\ pc = "aborted" /\ trace[k].ch = ch)
  /\ pc = "aborted" =>
       /\ Len(trace) > 0 /\ trace[Len(trace)].op = "error"
       /\ \A c \in Channels :
            /\ c >= ch => files[c] = NoFile
            /\ c < ch =>
                 /\ files[c].exists
                 /\ Len(EventsOf("write", c)) = 1
                 /\ files[c].rows = EventsOf("write", c)[1].arg

C6_Witness ==
  /\ pc = "aborted"
  /\ ch = 2
  /\ files[1].exists
  /\ Len(files[1].rows) > 1
  /\ Len(EventsOf("stats", 2)) > 0

\* The place of an event in the processing of its channel.
Rank(e) ==
  CASE e.op = "list" -> 1
    [] e.op \in {"stats", "sleep"} -> 2
    [] e.op = "write" -> 3
    [] OTHER -> 4

\* C7: events are logged channel after channel in the configured order; within
\* a channel the page requests come first, then the statistics requests, then
\* the one file write; and a request or file of a channel holds only cursors
\* and videos of that channel's playlist.
C7_ChannelsInSequence ==
  /\ \A j \in 1..Len(trace), k \in 1..Len(trace) :
       j < k =>
         /\ trace[j].ch <= trace[k].ch
         /\ trace[j].ch = trace[k].ch => Rank(trace[j]) <= Rank(trace[k])
         /\ (trace[j].op = "write" /\ trace[k].ch = trace[j].ch) => trace[k].op = "error"
  /\ \A k \in 1..Len(trace) :
       LET e == trace[k]
           own == channels[e.ch].playlist
       IN  /\ e.ch <= ch
           /\ e.op = "list" => (e.arg = NoToken \/ e.arg[1] = own)
           /\ e.op = "stats" => \A n \in 1..Len(e.arg) : e.arg[n][1] = own
           /\ e.op = "write" =>
                /\ e.ch < ch
                /\ \A n \in 2..Len(e.arg) : e.arg[n][2][2][1] = own
  /\ \A c \in Channels :
       files[c].exists => \A n \in 2..Len(files[c].rows) :
                             files[c].rows[n][2][2][1] = channels[c].playlist

C7_Witness ==
  /\ pc = "done"
  /\ \A c \in Channels : /\ Len(EventsOf("list", c)) >= 2
                         /\ Len(EventsOf("stats", c)) >= 2
                         /\ Len(EventsOf("write", c)) = 1

\* A viewCount that reads as a non-negative integer.
IsCount(v) == Len(v) > 0 /\ \A k \in 1..Len(v) : v[k] \in Digits

\* C8, as stated: every views value of a returned record and of a written data
\* row is a non-negative integer count.
C8_ViewsAreCounts ==
  /\ \A k \in 1..Len(final_data) : IsCount(final_data[k].views)
  /\ \A c \in Channels : \A n \in 2..Len(files[c].rows) : IsCount(files[c].rows[n][3])

\* C9: the script is about to request a further page only when the last
\* response supplied a cursor, which is then the cursor of the request; and
\* get_videos has returned only after a response without a cursor.
C9_LoopFollowsCursor ==
  /\ (pc = "list" /\ Len(EventsOf("list", ch)) > 0) =>
       /\ next_page_token # NoToken
       /\ pageToken = next_page_token
       /\ Len(videos) < uploads
  /\ Listed =>
       /\ next_page_token = NoToken
       /\ Len(EventsOf("list", ch)) > 0
       /\ Len(videos) = uploads

C9_Witness ==
  /\ pc = "list"
  /\ Len(EventsOf("list", ch)) = 2
  /\ next_page_token # NoToken

\* C10: when get_video_data returns for a listing of K videos, it has called
\* get_view_counts ceil(K / batch size) times, each time with at most
\* batch-size identifiers, the batches being consecutive slices that together
\* are the listing; and at any time every statistics request is followed by a
\* sleep before anything else happens.
C10_Batches ==
  /\ pc = "write" =>
       /\ Len(EventsOf("stats", ch)) = Ceil(Len(videos), batch_size)
       /\ Flatten(EventsOf("stats", ch)) = VideoIds(videos)
  /\ \A k \in 1..Len(trace) :
       trace[k].op = "stats" =>
         /\ Len(trace[k].arg) <= batch_size
         /\ Len(trace[k].arg) > 0
         /\ k < Len(trace)
         /\ trace[k + 1].op = "sleep"
         /\ trace[k + 1].ch = trace[k].ch

C10_Witness ==
  /\ pc = "write"
  /\ Len(videos) = 2 * batch_size + 1
  /\ Len(EventsOf("stats", ch)) = 3
  /\ Len(EventsOf("sleep", ch)) = 3
====
